---- MODULE Spec2Model ----
(***************************************************************************)
(* Warehouse management core of app.py: the SKU mapper (SKUMapper), the    *)
(* sales ingestion (WMSApp.load_sales_data / process_sales_data) and the   *)
(* per-MSKU report (WMSApp.generate_sales_report), over one SQLite         *)
(* connection.  Python's sqlite3 opens a transaction implicitly before a   *)
(* data-modifying statement and keeps it open until commit(); the model    *)
(* therefore keeps the committed file contents (db_file) apart from what   *)
(* the connection reads and writes (conn).                                 *)
(*                                                                         *)
(* The last_updated column (datetime.now()) is written but never read by   *)
(* any modelled path and is left out of the rows.                          *)
(***************************************************************************)
EXTENDS Integers, Sequences, FiniteSets, TLC

\* Python None / SQL NULL; distinct from every text of the input universes.
None == "<None>"

(***************************************************************************)
(* Input universes                                                         *)
(***************************************************************************)
SeedSku    == "MTYGAUZJFZAAZXYJ"
SharedSku  == "STFH6QQNDEQTBMCK"
NewSku     == "NEW-SKU1"
BadSku     == "BAD SKU!"

\* Texts the validator and the resolver are examined on.
SkuTexts == {SeedSku, SharedSku, NewSku, BadSku, "SKU_9", "", "SKU9\n"}

\* The characters of a text, as Python's re module sees them.
Chars(s) ==
  CASE s = "MTYGAUZJFZAAZXYJ" -> <<"M", "T", "Y", "G", "A", "U", "Z", "J", "F", "Z", "A", "A", "Z", "X", "Y", "J">>
    [] s = "MTYGFYU2AXY4VUYQ" -> <<"M", "T", "Y", "G", "F", "Y", "U", "2", "A", "X", "Y", "4", "V", "U", "Y", "Q">>
    [] s = "MTYGYX7YB7DJ5HSF" -> <<"M", "T", "Y", "G", "Y", "X", "7", "Y", "B", "7", "D", "J", "5", "H", "S", "F">>
    [] s = "MTYGF8CKEZVGPZGX" -> <<"M", "T", "Y", "G", "F", "8", "C", "K", "E", "Z", "V", "G", "P", "Z", "G", "X">>
    [] s = "MTYGYZGGV5NGQRXG" -> <<"M", "T", "Y", "G", "Y", "Z", "G", "G", "V", "5", "N", "G", "Q", "R", "X", "G">>
    [] s = "MBXGPK2WHAWYW4UF" -> <<"M", "B", "X", "G", "P", "K", "2", "W", "H", "A", "W", "Y", "W", "4", "U", "F">>
    [] s = "MTYGADJZHJYSDTXB" -> <<"M", "T", "Y", "G", "A", "D", "J", "Z", "H", "J", "Y", "S", "D", "T", "X", "B">>
    [] s = "MTYGACBNGZPTDBGZ" -> <<"M", "T", "Y", "G", "A", "C", "B", "N", "G", "Z", "P", "T", "D", "B", "G", "Z">>
    [] s = "MBXF894GJXNQ79DN" -> <<"M", "B", "X", "F", "8", "9", "4", "G", "J", "X", "N", "Q", "7", "9", "D", "N">>
    [] s = "MTYGYZJRGAKY3AEJ" -> <<"M", "T", "Y", "G", "Y", "Z", "J", "R", "G", "A", "K", "Y", "3", "A", "E", "J">>
    [] s = "OTYGU29RCH3FZZP8" -> <<"O", "T", "Y", "G", "U", "2", "9", "R", "C", "H", "3", "F", "Z", "Z", "P", "8">>
    [] s = "OTYGU25AZFNXZRXX" -> <<"O", "T", "Y", "G", "U", "2", "5", "A", "Z", "F", "N", "X", "Z", "R", "X", "X">>
    [] s = "STFH8CZHGFBB8RHP" -> <<"S", "T", "F", "H", "8", "C", "Z", "H", "G", "F", "B", "B", "8", "R", "H", "P">>
    [] s = "STFH6QTVHNR3JSYZ" -> <<"S", "T", "F", "H", "6", "Q", "T", "V", "H", "N", "R", "3", "J", "S", "Y", "Z">>
    [] s = "STFH76G8G2ZAGFVZ" -> <<"S", "T", "F", "H", "7", "6", "G", "8", "G", "2", "Z", "A", "G", "F", "V", "Z">>
    [] s = "STFH6QQNDEQTBMCK" -> <<"S", "T", "F", "H", "6", "Q", "Q", "N", "D", "E", "Q", "T", "B", "M", "C", "K">>
    [] s = "STFH6QTDZDU3JMTG" -> <<"S", "T", "F", "H", "6", "Q", "T", "D", "Z", "D", "U", "3", "J", "M", "T", "G">>
    [] s = "STFH63ZFB9NC9NZQ" -> <<"S", "T", "F", "H", "6", "3", "Z", "F", "B", "9", "N", "C", "9", "N", "Z", "Q">>
    [] s = "STFH74ECSV8DWJHF" -> <<"S", "T", "F", "H", "7", "4", "E", "C", "S", "V", "8", "D", "W", "J", "H", "F">>
    [] s = "STFH6FDUWS2FRN4T" -> <<"S", "T", "F", "H", "6", "F", "D", "U", "W", "S", "2", "F", "R", "N", "4", "T">>
    [] s = "STFH6GXUYCBZGQB5" -> <<"S", "T", "F", "H", "6", "G", "X", "U", "Y", "C", "B", "Z", "G", "Q", "B", "5">>
    [] s = "STFH8CZKNCEHTG2A" -> <<"S", "T", "F", "H", "8", "C", "Z", "K", "N", "C", "E", "H", "T", "G", "2", "A">>
    [] s = "STFH6GYMKWBPBFQ5" -> <<"S", "T", "F", "H", "6", "G", "Y", "M", "K", "W", "B", "P", "B", "F", "Q", "5">>
    [] s = "STFH6MNQVEXTFE7S" -> <<"S", "T", "F", "H", "6", "M", "N", "Q", "V", "E", "X", "T", "F", "E", "7", "S">>
    [] s = "STFG4PZP2YENG4NN" -> <<"S", "T", "F", "G", "4", "P", "Z", "P", "2", "Y", "E", "N", "G", "4", "N", "N">>
    [] s = "STFH6GYEKCGYZQ5M" -> <<"S", "T", "F", "H", "6", "G", "Y", "E", "K", "C", "G", "Y", "Z", "Q", "5", "M">>
    [] s = "SGLG5E7ZZWHFNTFH" -> <<"S", "G", "L", "G", "5", "E", "7", "Z", "Z", "W", "H", "F", "N", "T", "F", "H">>
    [] s = "SGLGQSDZH7TP4CTF" -> <<"S", "G", "L", "G", "Q", "S", "D", "Z", "H", "7", "T", "P", "4", "C", "T", "F">>
    [] s = "SGLGQQ9QN2M6TFH7" -> <<"S", "G", "L", "G", "Q", "Q", "9", "Q", "N", "2", "M", "6", "T", "F", "H", "7">>
    [] s = "SGLGFYUGHZHXSZWD" -> <<"S", "G", "L", "G", "F", "Y", "U", "G", "H", "Z", "H", "X", "S", "Z", "W", "D">>
    [] s = "SGLGQSHAWZZEJPHW" -> <<"S", "G", "L", "G", "Q", "S", "H", "A", "W", "Z", "Z", "E", "J", "P", "H", "W">>
    [] s = "TWPH6ZHTQ3STVASV" -> <<"T", "W", "P", "H", "6", "Z", "H", "T", "Q", "3", "S", "T", "V", "A", "S", "V">>
    [] s = "STFH6QPFQHH9FHZH" -> <<"S", "T", "F", "H", "6", "Q", "P", "F", "Q", "H", "H", "9", "F", "H", "Z", "H">>
    [] s = "OTYGUM6DFKP8WTNW" -> <<"O", "T", "Y", "G", "U", "M", "6", "D", "F", "K", "P", "8", "W", "T", "N", "W">>
    [] s = "OTYGUGHAGZNTZTCZ" -> <<"O", "T", "Y", "G", "U", "G", "H", "A", "G", "Z", "N", "T", "Z", "T", "C", "Z">>
    [] s = "PNLGT3YH6CHBRXRS" -> <<"P", "N", "L", "G", "T", "3", "Y", "H", "6", "C", "H", "B", "R", "X", "R", "S">>
    [] s = "PNLGT3YMUSHSEPXA" -> <<"P", "N", "L", "G", "T", "3", "Y", "M", "U", "S", "H", "S", "E", "P", "X", "A">>
    [] s = "WATG5ATMAD7U2KGS" -> <<"W", "A", "T", "G", "5", "A", "T", "M", "A", "D", "7", "U", "2", "K", "G", "S">>
    [] s = "NEW-SKU1" -> <<"N", "E", "W", "-", "S", "K", "U", "1">>
    [] s = "BAD SKU!" -> <<"B", "A", "D", " ", "S", "K", "U", "!">>
    [] s = "SKU_9" -> <<"S", "K", "U", "_", "9">>
    [] s = "" -> << >>
    [] s = "3" -> <<"3">>
    [] s = "5" -> <<"5">>
    [] s = "10" -> <<"1", "0">>
    [] s = "abc" -> <<"a", "b", "c">>
    [] s = "SKU9\n" -> <<"S", "K", "U", "9", "\n">>

UpperCase == {"A","B","C","D","E","F","G","H","I","J","K","L","M",
              "N","O","P","Q","R","S","T","U","V","W","X","Y","Z"}
LowerCase == {"a","b","c","d","e","f","g","h","i","j","k","l","m",
              "n","o","p","q","r","s","t","u","v","w","x","y","z"}
Digits    == {"0","1","2","3","4","5","6","7","8","9"}

\* The character class [A-Za-z0-9\-].
ClassChars == UpperCase \cup LowerCase \cup Digits \cup {"-"}

InClass(c) == c \in ClassChars

\* re.match(r'^[A-Za-z0-9\-]+$', sku): one or more class characters up to
\* the end of the text, where $ also matches just before a final newline.
validate_sku_format(sku) ==
  LET cs   == Chars(sku)
      n    == Len(cs)
      body == IF n > 0 /\ cs[n] = "\n" THEN SubSeq(cs, 1, n - 1) ELSE cs
  IN  /\ Len(body) > 0
      /\ \A i \in 1..Len(body) : InClass(body[i])

\* The contract's validity: non-empty, only class characters, matched in full.
IsValidSku(sku) ==
  LET cs == Chars(sku)
  IN  Len(cs) > 0 /\ \A i \in 1..Len(cs) : InClass(cs[i])

(***************************************************************************)
(* Tables: sets of rows; the PRIMARY KEY is kept by the write operators.   *)
(***************************************************************************)
\* A write that keeps the row already stored under the key.
InsertOrReplace_KeepExisting(table, key, row) ==
  IF \E r \in table : r[key] = row[key] THEN table ELSE table \cup {row}

\* INSERT OR REPLACE: a row with the same key is deleted, then the row is
\* inserted.
InsertOrReplace(table, key, row) ==
  {r \in table : r[key] # row[key]} \cup {row}

\* INSERT OR IGNORE: the row is dropped when its key is already present.
InsertOrIgnore(table, key, row) ==
  IF \E r \in table : r[key] = row[key] THEN table ELSE table \cup {row}

EmptyTables == [msku_mappings |-> {}, sales_data |-> {}, inventory |-> {}]

\* SKUMapper.predefined_mappings, in the dict's insertion order.
predefined_mappings ==
  <<
    <<"MUSIC_BOX", <<
        "MTYGAUZJFZAAZXYJ", "MTYGFYU2AXY4VUYQ", "MTYGYX7YB7DJ5HSF",
        "MTYGF8CKEZVGPZGX", "MTYGYZGGV5NGQRXG", "MBXGPK2WHAWYW4UF",
        "MTYGADJZHJYSDTXB", "MTYGACBNGZPTDBGZ", "MBXF894GJXNQ79DN",
        "MTYGYZJRGAKY3AEJ", "OTYGU29RCH3FZZP8", "OTYGU25AZFNXZRXX" >> >>,
    <<"PLUSH_TOY", <<
        "STFH8CZHGFBB8RHP", "STFH6QTVHNR3JSYZ", "STFH76G8G2ZAGFVZ",
        "STFH6QQNDEQTBMCK", "STFH6QTDZDU3JMTG", "STFH63ZFB9NC9NZQ",
        "STFH74ECSV8DWJHF", "STFH6FDUWS2FRN4T", "STFH6GXUYCBZGQB5",
        "STFH8CZKNCEHTG2A", "STFH6GYMKWBPBFQ5", "STFH6MNQVEXTFE7S",
        "STFG4PZP2YENG4NN", "STFH6GYEKCGYZQ5M" >> >>,
    <<"SUNGLASSES", <<
        "SGLG5E7ZZWHFNTFH", "SGLGQSDZH7TP4CTF", "SGLGQQ9QN2M6TFH7",
        "SGLGFYUGHZHXSZWD", "SGLGQSHAWZZEJPHW" >> >>,
    <<"TOY_WEAPON", <<
        "TWPH6ZHTQ3STVASV", "STFH6QPFQHH9FHZH", "STFH6QQNDEQTBMCK",
        "OTYGUM6DFKP8WTNW", "OTYGUGHAGZNTZTCZ" >> >>,
    <<"MUSIC_INSTRUMENT", <<
        "PNLGT3YH6CHBRXRS", "PNLGT3YMUSHSEPXA" >> >>,
    <<"WATCH", <<
        "WATG5ATMAD7U2KGS" >> >>
  >>

\* The (sku, msku) pairs in the order create_tables visits them.
RECURSIVE SeedPairsOf(_, _)
SeedPairsOf(msku, skus) ==
  IF skus = << >> THEN << >>
  ELSE << <<Head(skus), msku>> >> \o SeedPairsOf(msku, Tail(skus))

RECURSIVE SeedPairsFrom(_)
SeedPairsFrom(entries) ==
  IF entries = << >> THEN << >>
  ELSE SeedPairsOf(Head(entries)[1], Head(entries)[2]) \o SeedPairsFrom(Tail(entries))

SeedPairs == SeedPairsFrom(predefined_mappings)

MappingRow(sku, msku, marketplace) ==
  [sku |-> sku, msku |-> msku, marketplace |-> marketplace]

\* A seeding loop that overwrites the rows it finds.
RECURSIVE PopulatePredefined_Overwrite(_, _)
PopulatePredefined_Overwrite(mappings, pairs) ==
  IF pairs = << >> THEN mappings
  ELSE PopulatePredefined_Overwrite(
         {r \in mappings : r.sku # Head(pairs)[1]}
           \cup {[sku |-> Head(pairs)[1], msku |-> Head(pairs)[2],
                  marketplace |-> "default"]},
         Tail(pairs))

\* The seeding loop of create_tables.
RECURSIVE PopulatePredefined(_, _)
PopulatePredefined(mappings, pairs) ==
  IF pairs = << >> THEN mappings
  ELSE PopulatePredefined(
         InsertOrIgnore(mappings, "sku",
                        MappingRow(Head(pairs)[1], Head(pairs)[2], "default")),
         Tail(pairs))

\* SKUMapper.create_tables on the connection's tables (CREATE TABLE IF NOT
\* EXISTS keeps existing rows).
create_tables(tables) ==
  [tables EXCEPT !.msku_mappings = PopulatePredefined(@, SeedPairs)]

\* SKUMapper.map_sku: the exception raised (None: it returns) and the value
\* returned.
map_sku(mappings, sku) ==
  IF ~validate_sku_format(sku)
  THEN [raised |-> None, value |-> None]
  ELSE IF \E r \in mappings : r.sku = sku
       THEN [raised |-> None, value |-> (CHOOSE r \in mappings : r.sku = sku).msku]
       ELSE [raised |-> None, value |-> "UNKNOWN"]

\* SKUMapper.save_mapping on the connection's tables: the format check
\* raises ValueError before any write; otherwise the row is replaced and the
\* transaction committed.
save_mapping(tables, sku, msku, marketplace) ==
  IF ~validate_sku_format(sku)
  THEN [tables |-> tables, commit |-> FALSE, raised |-> "ValueError"]
  ELSE [tables |-> [tables EXCEPT !.msku_mappings =
                      InsertOrReplace(@, "sku", MappingRow(sku, msku, marketplace))],
        commit |-> TRUE,
        raised |-> None]

(***************************************************************************)
(* Data frames read from CSV files: the columns present and the rows,      *)
(* every cell a text.                                                      *)
(***************************************************************************)
DigitValue(c) ==
  CASE c = "0" -> 0 [] c = "1" -> 1 [] c = "2" -> 2 [] c = "3" -> 3
    [] c = "4" -> 4 [] c = "5" -> 5 [] c = "6" -> 6 [] c = "7" -> 7
    [] c = "8" -> 8 [] c = "9" -> 9

\* int(cell) / float(cell) succeed on a decimal numeral and raise ValueError
\* otherwise.  Amounts are whole currency units.
IsNumeral(text) ==
  LET cs == Chars(text)
  IN  Len(cs) > 0 /\ \A i \in 1..Len(cs) : cs[i] \in Digits

RECURSIVE NumeralValue(_)
NumeralValue(cs) ==
  IF cs = << >> THEN 0
  ELSE 10 * NumeralValue(SubSeq(cs, 1, Len(cs) - 1)) + DigitValue(cs[Len(cs)])

int(text) == NumeralValue(Chars(text))

float(text) == NumeralValue(Chars(text))

MappingColumns == {"SKU", "MSKU"}

SalesColumns ==
  {"SKU", "Product", "Quantity", "Invoice Amount", "Order Id", "Ordered On", "State"}

\* Columns of the sales_data table as created by create_tables.
SalesDataSchema ==
  {"order_id", "sku", "msku", "quantity", "price", "date", "marketplace", "state"}

\* Placeholder stock written by process_sales_data.
DefaultStock == 100

SalesRecord(row, msku) ==
  [order_id |-> row.Order_Id, sku |-> row.SKU, msku |-> msku,
   quantity |-> int(row.Quantity), price |-> float(row.Invoice_Amount),
   date |-> row.Ordered_On, marketplace |-> "default", state |-> row.State]

\* An item whose stock is reduced by the quantity sold.
InventoryItem_Decrement(row, msku) ==
  [sku |-> row.SKU, msku |-> msku, product_name |-> row.Product,
   stock_quantity |-> 100 - int(row.Quantity)]

InventoryItem(row, msku) ==
  [sku |-> row.SKU, msku |-> msku, product_name |-> row.Product,
   stock_quantity |-> DefaultStock]

\* An iteration that adds the row's quantity to the order already stored.
WriteSale_Accumulate(tables, row, msku) ==
  LET old == {r \in tables.sales_data : r.order_id = row.Order_Id}
      rec == [order_id |-> row.Order_Id, sku |-> row.SKU, msku |-> msku,
              quantity |-> int(row.Quantity), price |-> float(row.Invoice_Amount),
              date |-> row.Ordered_On, marketplace |-> "default", state |-> row.State]
      new == IF old = {} THEN rec
             ELSE [rec EXCEPT !.quantity = @ + (CHOOSE r \in old : TRUE).quantity]
  IN  [tables EXCEPT
         !.sales_data = (@ \ old) \cup {new},
         !.inventory  = {i \in @ : i.sku # row.SKU}
                          \cup {[sku |-> row.SKU, msku |-> msku,
                                 product_name |-> row.Product, stock_quantity |-> 100]}]

\* The two statements of one iteration of process_sales_data.
WriteSale(tables, row, msku) ==
  [tables EXCEPT
     !.sales_data = InsertOrReplace(@, "order_id", SalesRecord(row, msku)),
     !.inventory  = InsertOrReplace(@, "sku", InventoryItem(row, msku))]

\* The row loop of process_sales_data: the tables as the connection sees them
\* when the loop ends or raises, and the exception raised (None if none).
RECURSIVE ProcessRows(_, _, _)
ProcessRows(tables, columns, rows) ==
  IF rows = << >> THEN [tables |-> tables, raised |-> None]
  ELSE LET row == Head(rows)
       IN  IF ~(SalesColumns \subseteq columns)
           THEN [tables |-> tables, raised |-> "KeyError"]
           ELSE IF ~IsNumeral(row.Quantity) \/ ~IsNumeral(row.Invoice_Amount)
           THEN [tables |-> tables, raised |-> "ValueError"]
           ELSE ProcessRows(
                  WriteSale(tables, row, map_sku(tables.msku_mappings, row.SKU).value),
                  columns, Tail(rows))

\* display_sales_data: its SELECT names these columns of sales_data.
DisplayColumns ==
  {"order_id", "sku", "msku", "product_name", "quantity", "price", "date", "state"}

display_sales_data_raises == ~(DisplayColumns \subseteq SalesDataSchema)

\* The row loop of load_mappings.
RECURSIVE LoadRows(_, _, _)
LoadRows(mappings, columns, rows) ==
  IF rows = << >> THEN [mappings |-> mappings, raised |-> None]
  ELSE LET row == Head(rows)
           marketplace == IF "marketplace" \in columns THEN row.marketplace
                          ELSE "default"
       IN  IF ~(MappingColumns \subseteq columns)
           THEN [mappings |-> mappings, raised |-> "KeyError"]
           ELSE LoadRows(InsertOrReplace(mappings, "sku",
                                         MappingRow(row.SKU, row.MSKU, marketplace)),
                         columns, Tail(rows))

\* SKUMapper.load_mappings: the loop, then the commit; an exception leaves
\* the transaction open and is re-raised.
load_mappings(tables, df) ==
  LET r == LoadRows(tables.msku_mappings, df.columns, df.rows)
  IN  [tables |-> [tables EXCEPT !.msku_mappings = r.mappings],
       commit |-> (r.raised = None),
       raised |-> r.raised]

\* WMSApp.process_sales_data: the loop, the commit, then display_sales_data.
process_sales_data(tables, df) ==
  LET r == ProcessRows(tables, df.columns, df.rows)
  IN  [tables |-> r.tables,
       commit |-> (r.raised = None),
       raised |-> IF r.raised # None THEN r.raised
                  ELSE IF display_sales_data_raises THEN "OperationalError"
                  ELSE None]

(***************************************************************************)
(* generate_sales_report                                                   *)
(***************************************************************************)
\* self.sales_data['SKU'].apply(self.sku_mapper.map_sku)
MskuColumn(mappings, rows) ==
  [i \in 1..Len(rows) |-> map_sku(mappings, rows[i].SKU).value]

RECURSIVE SumOver(_, _, _)
SumOver(rows, col, idx) ==
  IF idx = {} THEN 0
  ELSE LET i == CHOOSE j \in idx : TRUE
       IN  (IF col = "Quantity" THEN int(rows[i].Quantity)
            ELSE float(rows[i].Invoice_Amount))
           + SumOver(rows, col, idx \ {i})

\* The cells of a group in row order (sum of an object column joins its texts).
RECURSIVE Joined(_, _, _)
Joined(rows, msku_col, g) ==
  IF rows = << >> THEN << >>
  ELSE Joined(SubSeq(rows, 1, Len(rows) - 1), SubSeq(msku_col, 1, Len(rows) - 1), g)
       \o (IF msku_col[Len(rows)] = g THEN <<rows[Len(rows)].Quantity>> ELSE << >>)

\* groupby('MSKU').agg({'Quantity': 'sum', 'Invoice Amount': 'sum'}): one
\* group per distinct MSKU value, rows whose key is None are dropped.  A
\* Quantity column holding a non-numeral is of dtype object.
sales_by_msku(rows, msku_col) ==
  LET keys    == {msku_col[i] : i \in 1..Len(rows)} \ {None}
      numeric == \A i \in 1..Len(rows) : IsNumeral(rows[i].Quantity)
      idx(g)  == {i \in 1..Len(rows) : msku_col[i] = g}
  IN  IF numeric
      THEN {[msku |-> g,
             total_quantity |-> SumOver(rows, "Quantity", idx(g)),
             total_revenue  |-> SumOver(rows, "Invoice Amount", idx(g))] : g \in keys}
      ELSE {[msku |-> g,
             joined_quantity |-> Joined(rows, msku_col, g),
             total_revenue   |-> SumOver(rows, "Invoice Amount", idx(g))] : g \in keys}

(***************************************************************************)
(* Inputs                                                                  *)
(***************************************************************************)
MaxRows        == 2
MaxMappingRows == 2

SalesRow(order_id, sku, quantity) ==
  [SKU |-> sku, Product |-> "Toy", Quantity |-> quantity, Invoice_Amount |-> "10",
   Order_Id |-> order_id, Ordered_On |-> "2024-01-01", State |-> "KA"]

\* Two orders of a seeded SKU, a second row for order O1 with an unmapped
\* SKU, a row with an ill-formed SKU, a row whose Quantity is no number.
SalesRows ==
  { SalesRow("O1", SeedSku, "3"),
    SalesRow("O2", SeedSku, "5"),
    SalesRow("O1", NewSku,  "5"),
    SalesRow("O2", BadSku,  "3"),
    SalesRow("O2", NewSku,  "abc") }

SeqsUpTo(S, n) == UNION {[1..k -> S] : k \in 0..n}

\* Files with every column, and short files without the State column.
SalesFrames ==
  {[columns |-> SalesColumns, rows |-> rs, MSKU |-> << >>] :
     rs \in SeqsUpTo(SalesRows, MaxRows)}
  \cup
  {[columns |-> SalesColumns \ {"State"}, rows |-> rs, MSKU |-> << >>] :
     rs \in SeqsUpTo(SalesRows, 1)}

\* What the ingestion runs see typed into the entry fields and loaded as
\* mapping file.
EntrySkus  == {NewSku, BadSku, ""}
EntryMskus == {"MUSIC_BOX"}

NewSkuFrames ==
  {[columns |-> c, rows |-> << [SKU |-> NewSku, MSKU |-> "MUSIC_BOX"] >>] :
     c \in {{"SKU", "MSKU"}, {"SKU"}}}

\* What the mapping runs load, type and ingest.
MappingFileRows ==
  {[SKU |-> s, MSKU |-> "WIDGET", marketplace |-> "amazon"] : s \in {SeedSku, BadSku}}

MappingColumnSets ==
  {{"SKU", "MSKU", "marketplace"}, {"SKU", "MSKU"}, {"SKU", "marketplace"}}

MappingFrames ==
  {[columns |-> c, rows |-> rs] :
     c \in MappingColumnSets, rs \in SeqsUpTo(MappingFileRows, MaxMappingRows)}

MapperSkus  == {SeedSku, NewSku, BadSku, ""}
MapperMskus == {"GADGET", "WIDGET"}

MappingRunFrames ==
  {[columns |-> SalesColumns, rows |-> rs, MSKU |-> << >>] :
     rs \in { << SalesRow("O1", SeedSku, "3") >>,
              << SalesRow("O1", SeedSku, "3"), SalesRow("O2", NewSku, "abc") >> }}

(***************************************************************************)
(* State.  SKUMapper.msku_mappings, the in-memory dict, is assigned by     *)
(* load_mappings and save_mapping and read by nothing; message boxes and   *)
(* log lines are outputs.  Neither is part of the state.                   *)
(***************************************************************************)
VARIABLES
  running,        \* a WMSApp exists and holds the connection
  db_file,        \* committed contents of wms_database.db
  conn,           \* the tables as the open connection reads and writes them
  sales_data      \* self.sales_data: << >> for None, else <<data frame>>

vars == <<running, db_file, conn, sales_data>>

Init ==
  /\ running = FALSE
  /\ db_file = EmptyTables
  /\ conn = EmptyTables
  /\ sales_data = << >>

\* The connection and the file after a handler's statements: a commit makes
\* the connection's tables the file's.
Outcome(r, file) ==
  [conn |-> r.tables, db_file |-> IF r.commit THEN r.tables ELSE file,
   raised |-> r.raised]

\* WMSApp.load_sales_data, WMSApp.load_mapping_file and WMSApp.map_sku on the
\* store: each catches the exception and reports it.
load_sales_data(c, file, df) == Outcome(process_sales_data(c, df), file)

load_mapping_file(c, file, df) == Outcome(load_mappings(c, df), file)

map_sku_entry(c, file, sku, msku) ==
  IF sku = "" \/ msku = ""
  THEN [conn |-> c, db_file |-> file, raised |-> "rejected"]
  ELSE LET r == save_mapping(c, sku, msku, "default")
       IN  Outcome([r EXCEPT !.raised =
                      IF r.raised # None THEN r.raised
                      ELSE IF display_sales_data_raises THEN "OperationalError"
                      ELSE None],
                   file)

\* WMSApp.__init__: connect, SKUMapper(conn) runs create_tables and commits.
Start ==
  /\ ~running
  /\ running' = TRUE
  /\ conn' = create_tables(db_file)
  /\ db_file' = conn'
  /\ sales_data' = << >>

\* WMSApp.__del__: the connection is closed; an open transaction is lost.
Close ==
  /\ running
  /\ running' = FALSE
  /\ conn' = db_file
  /\ sales_data' = << >>
  /\ UNCHANGED db_file

\* WMSApp.load_mapping_file on a chosen CSV file.
LoadMappingFile(df) ==
  /\ running
  /\ LET s == load_mapping_file(conn, db_file, df)
     IN  conn' = s.conn /\ db_file' = s.db_file
  /\ UNCHANGED <<running, sales_data>>

\* WMSApp.load_sales_data on a chosen CSV file.
LoadSalesData(df) ==
  /\ running
  /\ sales_data' = <<df>>
  /\ LET s == load_sales_data(conn, db_file, df)
     IN  conn' = s.conn /\ db_file' = s.db_file
  /\ UNCHANGED running

\* WMSApp.map_sku on the texts of the two entry fields.
MapSku(sku, msku) ==
  /\ running
  /\ LET s == map_sku_entry(conn, db_file, sku, msku)
     IN  conn' = s.conn /\ db_file' = s.db_file
  /\ UNCHANGED <<running, sales_data>>

\* WMSApp.generate_sales_report: the MSKU column is added to the frame.
GenerateSalesReport ==
  /\ running
  /\ IF sales_data = << >> \/ "SKU" \notin sales_data[1].columns
     THEN UNCHANGED sales_data
     ELSE sales_data' =
            << [sales_data[1] EXCEPT !.MSKU =
                  <<MskuColumn(conn.msku_mappings, sales_data[1].rows)>>] >>
  /\ UNCHANGED <<running, db_file, conn>>

\* Ingestion runs: every sales file, few mappings.
Next ==
  \/ Start
  \/ Close
  \/ \E df \in NewSkuFrames : LoadMappingFile(df)
  \/ \E df \in SalesFrames : LoadSalesData(df)
  \/ \E sku \in EntrySkus, msku \in EntryMskus : MapSku(sku, msku)
  \/ GenerateSalesReport

Spec == Init /\ [][Next]_vars

\* Mapping runs: every mapping file and entry, two sales files.
NextMapping ==
  \/ Start
  \/ Close
  \/ \E df \in MappingFrames : LoadMappingFile(df)
  \/ \E df \in MappingRunFrames : LoadSalesData(df)
  \/ \E sku \in MapperSkus, msku \in MapperMskus : MapSku(sku, msku)

SpecMapping == Init /\ [][NextMapping]_vars

\* The groups generate_sales_report plots for a frame under the mappings.
report(mappings, df) == sales_by_msku(df.rows, MskuColumn(mappings, df.rows))

(***************************************************************************)
(* Properties                                                              *)
(***************************************************************************)
KeysUnique(table, key) ==
  \A r1, r2 \in table : r1[key] = r2[key] => r1 = r2

Range(seq) == {seq[i] : i \in 1..Len(seq)}

\* The committed sales_data and inventory relations.
PersistedSales == <<db_file.sales_data, db_file.inventory>>

\* Rows written by a batch whose row loop raised are still in the
\* connection's open transaction (nothing else leaves one open).
Uncommitted ==
  conn.sales_data # db_file.sales_data \/ conn.inventory # db_file.inventory

IngestStep == \E df \in SalesFrames : LoadSalesData(df)

\* C1: Ingest is all-or-nothing.  An Ingest whose row loop raises leaves the
\* committed sales_data and inventory as they were, and no later handler
\* other than a further Ingest makes the rows of that batch part of them.
C1_IngestAllOrNothing ==
  [][ /\ \A df \in SalesFrames :
           (LoadSalesData(df) /\ ProcessRows(conn, df.columns, df.rows).raised # None)
             => UNCHANGED PersistedSales
      /\ (Uncommitted /\ ~IngestStep) => UNCHANGED PersistedSales ]_vars

\* C2: Ingest is idempotent.  From every store state and for every sales
\* file, a second Ingest of the same file leaves the connection's and the
\* committed tables as the first left them, with one row per order id and
\* per SKU, and the report of the file is the same after both.
C2_IngestIdempotent ==
  running =>
    \A df \in SalesFrames :
      LET once  == load_sales_data(conn, db_file, df)
          twice == load_sales_data(once.conn, once.db_file, df)
      IN  /\ twice.conn = once.conn
          /\ twice.db_file = once.db_file
          /\ twice.raised = once.raised
          /\ KeysUnique(twice.conn.sales_data, "order_id")
          /\ KeysUnique(twice.conn.inventory, "sku")
          /\ KeysUnique(twice.db_file.sales_data, "order_id")
          /\ KeysUnique(twice.db_file.inventory, "sku")
          /\ report(twice.conn.msku_mappings, df) = report(once.conn.msku_mappings, df)

\* A two-row file has just been ingested and committed, and ingesting it
\* again is the step that changes nothing.
C2_Witness ==
  /\ running
  /\ sales_data # << >>
  /\ Len(sales_data[1].rows) = 2
  /\ sales_data[1].MSKU = << >>
  /\ Cardinality(db_file.sales_data) = 2
  /\ load_sales_data(conn, db_file, sales_data[1]).conn = conn
  /\ load_sales_data(conn, db_file, sales_data[1]).db_file = db_file

RECURSIVE SumField(_, _)
SumField(records, field) ==
  IF records = {} THEN 0
  ELSE LET r == CHOOSE x \in records : TRUE
       IN  r[field] + SumField(records \ {r}, field)

\* Per stored msku, the sums over the committed SalesRecords.
PersistedTotals ==
  {[msku |-> g,
    total_quantity |-> SumField({r \in db_file.sales_data : r.msku = g}, "quantity"),
    total_revenue  |-> SumField({r \in db_file.sales_data : r.msku = g}, "price")] :
     g \in {r.msku : r \in db_file.sales_data}}

\* C3: Summarize returns, per stored msku, the sums of quantity and price
\* over the committed SalesRecords.
C3_SummarizePersisted ==
  (running /\ sales_data # << >>) =>
    report(conn.msku_mappings, sales_data[1]) = PersistedTotals

\* C4: no SalesRecord and no InventoryItem has an ill-formed SKU or a null
\* msku (a row with an ill-formed SKU is skipped).
C4_InvalidSkuRowsSkipped ==
  /\ \A r \in conn.sales_data \cup db_file.sales_data :
       IsValidSku(r.sku) /\ r.msku # None
  /\ \A r \in conn.inventory \cup db_file.inventory :
       IsValidSku(r.sku) /\ r.msku # None

\* C5: every key of msku_mappings is a well-formed SKU (LoadBulk skips a
\* row with an ill-formed SKU).
C5_MappingKeysValid ==
  \A r \in conn.msku_mappings \cup db_file.msku_mappings : IsValidSku(r.sku)

\* C6: Resolve of an ill-formed SKU fails: it raises instead of returning a
\* value.
C6_ResolveRejectsInvalid ==
  running =>
    \A s \in SkuTexts : ~IsValidSku(s) => map_sku(conn.msku_mappings, s).raised # None

\* C7: Save(s, m) of a well-formed SKU succeeds, Resolve(s) then returns m
\* from the connection and from the committed file, and the mapping of every
\* other SKU is as before.
C7_SaveResolveRoundTrip ==
  [][ \A sku \in MapperSkus, msku \in MapperMskus :
        (MapSku(sku, msku) /\ IsValidSku(sku)) =>
          /\ save_mapping(conn, sku, msku, "default").raised = None
          /\ map_sku(conn'.msku_mappings, sku).value = msku
          /\ map_sku(db_file'.msku_mappings, sku).value = msku
          /\ KeysUnique(conn'.msku_mappings, "sku")
          /\ {r \in conn'.msku_mappings : r.sku # sku}
               = {r \in conn.msku_mappings : r.sku # sku}
          /\ \A other \in SkuTexts \ {sku} :
               map_sku(conn'.msku_mappings, other) = map_sku(conn.msku_mappings, other)
    ]_vars

\* Save has overwritten the seed's mapping and added one for a new SKU.
C7_Witness ==
  /\ running
  /\ MappingRow(SeedSku, "GADGET", "default") \in db_file.msku_mappings
  /\ MappingRow(NewSku, "WIDGET", "default") \in db_file.msku_mappings

\* The seed table as the contract reads it: the SKUs listed, and for each
\* the category that lists it first.
SeedSkus == UNION {Range(e[2]) : e \in Range(predefined_mappings)}

FirstCategory(sku) ==
  LET i == CHOOSE k \in 1..Len(predefined_mappings) :
             /\ sku \in Range(predefined_mappings[k][2])
             /\ \A j \in 1..(k - 1) : sku \notin Range(predefined_mappings[j][2])
  IN  predefined_mappings[i][1]

\* C8: Initialize keeps every mapping present, adds each absent seed SKU
\* under its first-listed category and marketplace "default", adds nothing
\* else, and a second run changes nothing; on a fresh store the seed SKU
\* MTYGAUZJFZAAZXYJ resolves to MUSIC_BOX and STFH6QQNDEQTBMCK has its one
\* mapping to PLUSH_TOY.
C8_InitializeInsertIfAbsent ==
  [][ Start =>
        /\ \A r \in db_file.msku_mappings : r \in db_file'.msku_mappings
        /\ \A s \in SeedSkus :
             (~\E r \in db_file.msku_mappings : r.sku = s)
               => MappingRow(s, FirstCategory(s), "default") \in db_file'.msku_mappings
        /\ \A r \in db_file'.msku_mappings :
             r \in db_file.msku_mappings \/ r.sku \in SeedSkus
        /\ KeysUnique(db_file'.msku_mappings, "sku")
        /\ conn' = db_file'
        /\ create_tables(db_file') = db_file'
        /\ db_file.msku_mappings = {} =>
             /\ map_sku(conn'.msku_mappings, "MTYGAUZJFZAAZXYJ").value = "MUSIC_BOX"
             /\ {r \in conn'.msku_mappings : r.sku = "STFH6QQNDEQTBMCK"}
                  = {MappingRow("STFH6QQNDEQTBMCK", "PLUSH_TOY", "default")}
    ]_vars

\* The application has been started again on a store in which the seed SKU
\* was re-mapped before a sale of it was ingested, and the re-mapping is
\* there.
C8_Witness ==
  /\ running
  /\ sales_data = << >>
  /\ \E r \in db_file.sales_data : r.sku = SeedSku /\ r.msku = "WIDGET"
  /\ MappingRow(SeedSku, "WIDGET", "amazon") \in conn.msku_mappings

\* C9: Save, LoadBulk and Initialize leave the committed sales_data and
\* inventory as they were, Ingest leaves msku_mappings as it was, and
\* Summarize leaves all three relations as they were.
C9_OwnershipFrames ==
  [][ /\ ( \/ Start
           \/ \E df \in NewSkuFrames : LoadMappingFile(df)
           \/ \E sku \in EntrySkus, msku \in EntryMskus : MapSku(sku, msku) )
         => UNCHANGED PersistedSales
      /\ IngestStep => UNCHANGED <<conn.msku_mappings, db_file.msku_mappings>>
      /\ GenerateSalesReport => UNCHANGED <<conn, db_file>>
    ]_vars

HasOneInventoryItem(tables) ==
  /\ \A r \in tables.sales_data : \E i \in tables.inventory : i.sku = r.sku
  /\ KeysUnique(tables.inventory, "sku")
  /\ \A i \in tables.inventory : i.stock_quantity = 100

\* C10: every SalesRecord has an InventoryItem of its SKU, there is one
\* InventoryItem per SKU, and every stock quantity is 100; in the committed
\* tables and in the connection's.
C10_InventoryPlaceholder ==
  HasOneInventoryItem(db_file) /\ HasOneInventoryItem(conn)

\* Two committed sales of the seed SKU, one inventory item for it.
C10_Witness ==
  /\ Cardinality({r \in db_file.sales_data : r.sku = SeedSku}) = 2
  /\ Cardinality({i \in db_file.inventory : i.sku = SeedSku}) = 1

====
